---- MODULE Spec2Model ----
(***************************************************************************)
(* The mailbox synchronization engine of archiva (src/app/archive.py):     *)
(* EmailArchiver.connect, EmailArchiver.fetch_emails,                      *)
(* EmailArchiver._fetch_single_email and sync_account, over the two tables *)
(* of src/app/models.py (mail_accounts, archived_emails), the remote IMAP  *)
(* inboxes and a clock.                                                    *)
(***************************************************************************)
EXTENDS Integers, Sequences, FiniteSets, TLC

(* ------------------------------ bounds --------------------------------- *)
\* last tick of the clock
MaxTime == 2
\* clock ticks in one calendar day
TicksPerDay == 2
\* messages the remote inboxes can hold, all together
MaxMailbox == 2
\* runs started, all accounts together
MaxRuns == 2
\* the batch_size argument of fetch_emails
batch_size == 1

(* ----------------------------- constants ------------------------------- *)
\* mail_accounts.id of the configured accounts
Accounts == {1, 2}
\* the callers of sync_account: the cron driver and a web-started thread
Runs == {"cron", "web"}
\* the Message-ID header values a remote message can carry
Headers == {"m1"}
\* a raw message without a Message-ID header
NoHeader == ""
\* a NULL text column
None == "none"
\* a NULL last_sync_at
NoTime == -1
\* what decrypt_secret, IMAP4_SSL and login raise
ConnectErrors == {"decrypt_error", "connect_error", "login_error"}
\* what select and search raise
SearchErrors == {"select_error", "search_error"}

(* ------------------------------- state --------------------------------- *)
VARIABLES
    now,            \* datetime.utcnow(), in ticks
    mailbox,        \* remote INBOX of each account: sequence of messages
    accounts,       \* table mail_accounts (committed rows)
    emails,         \* table archived_emails (committed rows, insertion order)
    pc,             \* position of each run
    acct,           \* EmailArchiver.account_id of each run
    imap,           \* EmailArchiver.imap of each run
    email_ids,      \* the ids the run's SEARCH returned
    pos,            \* number of ids of email_ids already processed
    fetched_total,  \* fetch_emails' counter
    pending,        \* message_id of the row added to the session, not committed
    nruns,          \* number of runs started so far
    cur,            \* history of the run in progress
    last,           \* history of the last terminated run of each account
    sync_all,       \* sync_all_enabled_accounts: its accounts, results, return
    email_body,     \* the raw message _fetch_single_email has fetched
    archived,       \* the ArchivedEmail it builds from email_body
    loaded,         \* emails_count as loaded into the store session of a run
    batching        \* the batch loop of fetch_emails over an id list

envVars == <<now, mailbox>>
storeVars == <<accounts, emails>>
runVars == <<pc, acct, imap, email_ids, pos, fetched_total, pending>>
histVars == <<nruns, cur, last>>
parseVars == <<email_body, archived>>
vars == <<now, mailbox, accounts, emails, pc, acct, imap, email_ids, pos,
          fetched_total, pending, nruns, cur, last, sync_all, email_body,
          archived, loaded, batching>>

(* --------------------------- pure functions ---------------------------- *)
\* the calendar day of a timestamp
Day(t) == t \div TicksPerDay

\* mutant: the criterion keeps the time of day of last_sync_at
SinceDate_KeepsTime(t) == t

\* strftime("%d-%b-%Y"): the date of a timestamp, without its time of day
SinceDate(t) == Day(t)

\* the IMAP search criterion of a run
SearchCriteria(last_sync_at) ==
    IF last_sync_at = NoTime
    THEN [kind |-> "ALL", since |-> 0]
    ELSE [kind |-> "SINCE", since |-> SinceDate(last_sync_at)]

\* does the server select this message for the criterion
Matches(msg, crit) == crit.kind = "ALL" \/ msg.date >= crit.since

\* IMAP SEARCH: the sequence numbers of the matching messages, ascending
ImapSearch(box, crit) ==
    SelectSeq([i \in 1..Len(box) |-> i], LAMBDA i : Matches(box[i], crit))

\* msg.get("Message-ID", f"unknown-{email_id.decode()}")
MessageId(msg, email_id) ==
    IF msg.hdr = NoHeader THEN "unknown-" \o ToString(email_id) ELSE msg.hdr

\* db.query(ArchivedEmail).filter(message_id == mid).first() is not None
Existing(rows, mid) == \E k \in 1..Len(rows) : rows[k].message_id = mid

\* mutant: message_id is declared without unique=True
UniqueOk_NotDeclared(rows, mid) == TRUE

\* the unique index on archived_emails.message_id accepts the new row
UniqueOk(rows, mid) == \A k \in 1..Len(rows) : rows[k].message_id # mid

\* mutant: the final status does not look at the count
FinalStatus_AlwaysSuccess(n) == "success"

\* "success" if fetched_total > 0 else "partial"
FinalStatus(n) == IF n > 0 THEN "success" ELSE "partial"

\* mutant: the checkpoint is written once, after the last batch
AfterEmail_CheckpointAtEnd(p, total) ==
    IF p = total THEN "checkpoint" ELSE "fetch"

\* the pc after the id at index p (1-based) has been processed
AfterEmail(p, total) ==
    IF p % batch_size = 0 \/ p = total THEN "checkpoint" ELSE "fetch"

\* the pc after the checkpoint that follows index p
AfterCheckpoint(p, total) == IF p = total THEN "finalize" ELSE "fetch"

(* ------------------------------ history -------------------------------- *)
\* what a run has done so far: the ids it skipped on a failure, the
\* message_ids it inserted, its checkpoints, the operations it performed, the
\* length of the inbox at its search, its search criterion and the rows of
\* archived_emails at its start
NoCur == [failed |-> {}, archived |-> {}, batches |-> 0, ops |-> {},
          seen |-> 0, crit |-> [kind |-> "ALL", since |-> 0], rows0 |-> <<>>]

NoLast == [outcome |-> "none", fetched |-> 0, failed |-> {}, archived |-> {},
           batches |-> 0, ops |-> {}, seen |-> 0, lenEnd |-> 0,
           crit |-> [kind |-> "ALL", since |-> 0]]

\* the record of a run of account a that ends now, having done c
Ended(c, a, outcome, fetched) ==
    [outcome |-> outcome, fetched |-> fetched, failed |-> c.failed,
     archived |-> c.archived, batches |-> c.batches, ops |-> c.ops,
     seen |-> c.seen, lenEnd |-> Len(mailbox[a]), crit |-> c.crit]

(* ------------------------------ the driver ---------------------------- *)
\* sync_all_enabled_accounts when it is not running
NoSyncAll == [pc |-> "idle", accounts |-> <<>>, results |-> <<>>,
              ret |-> [total |-> 0, successful |-> 0, failed |-> 0]]

\* the entry of results for a call of sync_account(a): what sync_account
\* returned, or what the except branch of the loop builds when it raised
Result(a, outcome, fetched) ==
    IF outcome = "raised"
    THEN [account_id |-> a, fetched |-> 0, success |-> FALSE,
          error |-> "store_error"]
    ELSE [account_id |-> a, fetched |-> fetched, success |-> TRUE,
          error |-> None]

(* --------------------------- the MIME decoder -------------------------- *)
\* body_text[:50000], body_html[:50000]
BodyLimit == 50000
\* parts of a multipart message, in the order of msg.walk()
MaxParts == 2

\* the charsets a part can declare; bytes.decode knows the first one only
Charsets == {"utf-8", "x-unknown"}
KnownCharsets == {"utf-8"}

\* the lengths of a decoded payload
Lengths == {0, 1, BodyLimit - 1, BodyLimit, BodyLimit + 1, BodyLimit + 10000}

\* the empty string
EmptyText == [src |-> "", len |-> 0]

\* the first n characters of the text src
Prefix(src, n) == IF n = 0 THEN EmptyText ELSE [src |-> src, len |-> n]

\* the decoded payloads: prefixes of two texts
Texts == {Prefix(src, n) : src \in {"a", "b"}, n \in Lengths}

\* body_text = None, body_html = None
NoBody == [src |-> None, len |-> 0]

\* the leaf parts of a message: text parts and attachment parts
Parts ==
    [disposition : {None}, ctype : {"text/plain", "text/html"},
     charset : Charsets, payload : Texts, filename : {None}]
    \cup
    [disposition : {"attachment"}, ctype : {"text/plain"},
     charset : {"utf-8"}, payload : {Prefix("b", 1)},
     filename : {None, "f.txt"}]

\* the raw messages: one part, or multipart with 1..MaxParts leaf parts
Messages ==
    {[multipart |-> FALSE, parts |-> <<p>>] : p \in Parts}
    \cup
    {[multipart |-> TRUE, parts |-> ps] :
        ps \in UNION {[1..n -> Parts] : n \in 1..MaxParts}}

\* no message fetched; nothing built
NoMessage == [multipart |-> FALSE, parts |-> <<>>]
NotParsed == [state |-> "none"]
\* _fetch_single_email returns False from its except branch
Skipped == [state |-> "skipped"]

\* the truth value of a body in "not body_text", "if body_text"
Truthy(b) == b.len > 0

\* part.get_payload(decode=True).decode(charset or "utf-8", errors="ignore"):
\* raises LookupError for a charset Python does not know
Decode(part) ==
    [raised |-> part.charset \notin KnownCharsets, text |-> part.payload]

\* _save_attachment: the descriptor, or None when the part has no filename
SaveAttachment(part) ==
    IF part.filename # None
    THEN <<[filename |-> part.filename, content_type |-> part.ctype,
            size |-> part.payload.len, saved |-> FALSE]>>
    ELSE <<>>

\* the locals of _fetch_single_email before the walk
NoWalk == [body_text |-> NoBody, body_html |-> NoBody, attachments |-> <<>>,
           raised |-> FALSE]

\* one iteration of "for part in msg.walk()"
WalkPart(st, part) ==
    IF part.disposition = "attachment"
    THEN [st EXCEPT !.attachments = @ \o SaveAttachment(part)]
    ELSE IF part.ctype = "text/plain" /\ ~Truthy(st.body_text)
    THEN [st EXCEPT !.body_text = Decode(part).text,
                    !.raised = Decode(part).raised]
    ELSE IF part.ctype = "text/html" /\ ~Truthy(st.body_html)
    THEN [st EXCEPT !.body_html = Decode(part).text,
                    !.raised = Decode(part).raised]
    ELSE st

\* the loop over msg.walk(), from part i on; an exception ends it
RECURSIVE Walk(_, _, _)
Walk(parts, i, st) ==
    IF i > Len(parts) \/ st.raised THEN st
    ELSE Walk(parts, i + 1, WalkPart(st, parts[i]))

\* the else branch: the whole payload is the plain body
WholePayload(part) ==
    [NoWalk EXCEPT !.body_text = Decode(part).text,
                   !.raised = Decode(part).raised]

\* mutant: the body is stored whole
StoredBody_NoLimit(b) == IF Truthy(b) THEN b ELSE NoBody

\* body_text[:50000] if body_text else None
StoredBody(b) ==
    IF Truthy(b)
    THEN Prefix(b.src, IF b.len < BodyLimit THEN b.len ELSE BodyLimit)
    ELSE NoBody

\* the ArchivedEmail built from a raw message, or Skipped when building it
\* raises
Parse(m) ==
    LET st == IF m.multipart THEN Walk(m.parts, 1, NoWalk)
              ELSE WholePayload(m.parts[1])
    IN  IF st.raised THEN Skipped
        ELSE [state |-> "archived",
              body_text |-> StoredBody(st.body_text),
              body_html |-> StoredBody(st.body_html),
              attachments |-> st.attachments,
              has_attachments |-> Len(st.attachments) > 0]

(* --------------------------- the batch loop ---------------------------- *)
\* the longest id list and the largest batch size of the batch loop
MaxIds == 6
MaxBatchSize == 4

\* the batch loop before it starts, over no ids: batch_size, email_ids, the
\* loop variable start, the ids of the current batch still to process, the
\* ids processed, the sizes of the completed batches, the checkpoints written
NoBatching == [pc |-> "range", batch_size |-> 1, email_ids |-> <<>>,
               start |-> 0, batch |-> <<>>, processed |-> <<>>,
               sizes |-> <<>>, size |-> 0, checkpoints |-> 0]

\* mutant: the slice takes one id more than batch_size
Slice_OneMore(ids, start, n) ==
    SubSeq(ids, start + 1,
           IF start + n + 1 < Len(ids) THEN start + n + 1 ELSE Len(ids))

\* email_ids[start : start + batch_size]
Slice(ids, start, n) ==
    SubSeq(ids, start + 1, IF start + n < Len(ids) THEN start + n ELSE Len(ids))

\* the attributes of self.account are expired (after a commit) or the session
\* has not read them
NotLoaded == -1

(* ------------------------------- Init ---------------------------------- *)
\* the store, the inboxes and the runs after construction
InitSync ==
    /\ now = 0
    /\ mailbox = [a \in Accounts |-> <<>>]
    /\ accounts \in
         {[a \in Accounts |->
             [enabled |-> en[a], last_sync_at |-> NoTime,
              last_sync_status |-> None, last_sync_error |-> None,
              emails_count |-> 0]] : en \in [Accounts -> BOOLEAN]}
    /\ emails = <<>>
    /\ pc = [r \in Runs |-> "idle"]
    /\ acct = [r \in Runs |-> 1]
    /\ imap = [r \in Runs |-> "none"]
    /\ email_ids = [r \in Runs |-> <<>>]
    /\ pos = [r \in Runs |-> 0]
    /\ fetched_total = [r \in Runs |-> 0]
    /\ pending = [r \in Runs |-> None]
    /\ nruns = 0
    /\ cur = [r \in Runs |-> NoCur]
    /\ last = [a \in Accounts |-> NoLast]
    /\ sync_all = NoSyncAll
    /\ loaded = [r \in Runs |-> NotLoaded]

Init ==
    /\ InitSync
    /\ email_body = NoMessage
    /\ archived = NotParsed
    /\ batching = NoBatching

\* a raw message has been fetched
InitParse ==
    /\ InitSync
    /\ \A a \in Accounts : accounts[a].enabled
    /\ email_body \in Messages
    /\ archived = NotParsed
    /\ batching = NoBatching

(* --------------------------- environment ------------------------------- *)
\* time passes
Tick ==
    /\ now < MaxTime
    /\ now' = now + 1
    /\ UNCHANGED <<mailbox, storeVars, runVars, histVars, sync_all, parseVars, loaded, batching>>

\* the number of messages of the inboxes of S
RECURSIVE Delivered(_)
Delivered(S) ==
    IF S = {} THEN 0
    ELSE LET a == CHOOSE x \in S : TRUE
         IN  Len(mailbox[a]) + Delivered(S \ {a})

\* the server delivers a message to an inbox; its internal date is today
Deliver(a, h) ==
    /\ Delivered(Accounts) < MaxMailbox
    /\ mailbox' = [mailbox EXCEPT ![a] = Append(@, [hdr |-> h, date |-> Day(now)])]
    /\ UNCHANGED <<now, storeVars, runVars, histVars, sync_all, parseVars, loaded, batching>>

(* ------------------------------ the run -------------------------------- *)
\* the run of r ends, having done c: its slot is free again; when
\* sync_all_enabled_accounts called it, the outcome is appended to results
Return(r, a, c, outcome, fetched, conn) ==
    /\ pc' = [pc EXCEPT ![r] = "idle"]
    /\ imap' = [imap EXCEPT ![r] = conn]
    /\ cur' = [cur EXCEPT ![r] = c]
    /\ last' = [last EXCEPT ![a] = Ended(c, a, outcome, fetched)]
    /\ sync_all' = IF r = "cron" /\ sync_all.pc = "loop"
                   THEN [sync_all EXCEPT
                            !.results = Append(@, Result(a, outcome, fetched))]
                   ELSE sync_all

\* mutant: recording a failure also stamps last_sync_at
RecordFailed_StampsTime(a, err) ==
    accounts' = [accounts EXCEPT ![a].last_sync_status = "failed",
                                 ![a].last_sync_error = err,
                                 ![a].last_sync_at = now]

\* the except branches of connect and fetch_emails: record the failure and
\* commit
RecordFailed(a, err) ==
    accounts' = [accounts EXCEPT ![a].last_sync_status = "failed",
                                 ![a].last_sync_error = err]

\* EmailArchiver(account_id, db): a new archiver for account a, in slot r
NewArchiver(r, a) ==
    /\ pc[r] = "idle"
    /\ nruns < MaxRuns
    /\ nruns' = nruns + 1
    /\ acct' = [acct EXCEPT ![r] = a]
    /\ email_ids' = [email_ids EXCEPT ![r] = <<>>]
    /\ pos' = [pos EXCEPT ![r] = 0]
    /\ fetched_total' = [fetched_total EXCEPT ![r] = 0]
    /\ pending' = [pending EXCEPT ![r] = None]

\* mutant: connect() does not filter on enabled
ConnectNoAccount_Connects(r, a) ==
    /\ ~accounts[a].enabled
    /\ NewArchiver(r, a)
    /\ pc' = [pc EXCEPT ![r] = "search"]
    /\ imap' = [imap EXCEPT ![r] = "open"]
    /\ cur' = [cur EXCEPT ![r] = [NoCur EXCEPT !.rows0 = emails]]
    /\ UNCHANGED <<envVars, storeVars, last, sync_all, parseVars, loaded, batching>>

\* connect(): the account is missing or disabled; fetch_emails returns 0
ConnectNoAccount(r, a) ==
    /\ ~accounts[a].enabled
    /\ NewArchiver(r, a)
    /\ Return(r, a, NoCur, "no_account", 0, "none")
    /\ UNCHANGED <<envVars, storeVars, parseVars, loaded, batching>>

\* mutant: connect() records the failure and returns True all the same
ConnectFails_Proceeds(r, a, err) ==
    /\ accounts[a].enabled
    /\ NewArchiver(r, a)
    /\ RecordFailed(a, err)
    /\ pc' = [pc EXCEPT ![r] = "search"]
    /\ imap' = [imap EXCEPT ![r] = "open"]
    /\ cur' = [cur EXCEPT ![r] = [NoCur EXCEPT !.ops = {"connect_failed"},
                                               !.rows0 = emails]]
    /\ UNCHANGED <<envVars, emails, last, sync_all, parseVars, loaded, batching>>

\* connect(): decrypt_secret, IMAP4_SSL or login raises; the failure is
\* recorded and fetch_emails returns 0. After a login error the connection
\* stays open
ConnectFails(r, a, err) ==
    /\ accounts[a].enabled
    /\ NewArchiver(r, a)
    /\ RecordFailed(a, err)
    /\ Return(r, a, [NoCur EXCEPT !.ops = {"connect_failed"}], "connect_failed", 0,
              IF err = "login_error" THEN "open" ELSE "none")
    /\ UNCHANGED <<envVars, emails, parseVars, loaded, batching>>

\* connect() returns True
ConnectOk(r, a) ==
    /\ accounts[a].enabled
    /\ NewArchiver(r, a)
    /\ pc' = [pc EXCEPT ![r] = "search"]
    /\ imap' = [imap EXCEPT ![r] = "open"]
    /\ cur' = [cur EXCEPT ![r] = [NoCur EXCEPT !.rows0 = emails]]
    /\ UNCHANGED <<envVars, storeVars, last, sync_all, parseVars, loaded, batching>>

\* fetch_emails up to the return of connect()
Connect(r, a) ==
    \/ ConnectNoAccount(r, a)
    \/ \E err \in ConnectErrors : ConnectFails(r, a, err)
    \/ ConnectOk(r, a)

\* sync_account(a) as sync_all_enabled_accounts and the cron driver call it:
\* one run at a time
StartRun(r, a) ==
    /\ r = "cron"
    /\ \A q \in Runs : pc[q] = "idle"
    /\ Connect(r, a)

\* sync_account(a) in a thread of its own, beside whatever else runs
StartThread(r, a) == Connect(r, a)

\* select("INBOX") and search(): the SEARCH answers OK
SearchOk(r) ==
    LET a == acct[r]
        crit == SearchCriteria(accounts[a].last_sync_at)
        ids == ImapSearch(mailbox[a], crit)
    IN  /\ pc[r] = "search"
        /\ email_ids' = [email_ids EXCEPT ![r] = ids]
        /\ pc' = [pc EXCEPT ![r] = IF Len(ids) = 0 THEN "finalize" ELSE "fetch"]
        /\ cur' = [cur EXCEPT ![r].ops = @ \cup {"search"},
                              ![r].seen = Len(mailbox[a]),
                              ![r].crit = crit]
        /\ UNCHANGED <<envVars, storeVars, acct, imap, pos, fetched_total,
                       pending, nruns, last, sync_all, parseVars, loaded, batching>>

\* search() answers with a status other than OK: "Search failed" is logged
\* and fetch_emails returns 0
SearchNotOk(r) ==
    LET a == acct[r]
        c == [cur[r] EXCEPT !.ops = @ \cup {"search"},
                            !.seen = Len(mailbox[a]),
                            !.crit = SearchCriteria(accounts[a].last_sync_at)]
    IN  /\ pc[r] = "search"
        /\ Return(r, a, c, "search_not_ok", 0, "logged_out")
        /\ UNCHANGED <<envVars, storeVars, acct, email_ids, pos,
                       fetched_total, pending, nruns, parseVars, loaded, batching>>

\* select() or search() raises: the except branch records the failure
SearchRaises(r, err) ==
    /\ pc[r] = "search"
    /\ RecordFailed(acct[r], err)
    /\ Return(r, acct[r], cur[r], IF err = "select_error" THEN "select_failed"
                         ELSE "search_failed", 0, "logged_out")
    /\ UNCHANGED <<envVars, emails, acct, email_ids, pos, fetched_total,
                   pending, nruns, parseVars, loaded, batching>>

\* mutant: the ids are processed from the end of the list
NextId_Reversed(r) == email_ids[r][Len(email_ids[r]) - pos[r]]

\* the id the run processes next
NextId(r) == email_ids[r][pos[r] + 1]

\* the message_id of the message the run processes next
NextMessageId(r) == MessageId(mailbox[acct[r]][NextId(r)], NextId(r))

\* the run moves on to the id after this one
Advance(r) ==
    /\ pos' = [pos EXCEPT ![r] = @ + 1]
    /\ pc' = [pc EXCEPT ![r] = AfterEmail(pos[r] + 1, Len(email_ids[r]))]

\* mutant: the failure of a message is not caught in _fetch_single_email and
\* reaches the except branch of fetch_emails
FetchFails_Aborts(r) ==
    /\ pc[r] = "fetch"
    /\ RecordFailed(acct[r], "fetch_error")
    /\ Return(r, acct[r], [cur[r] EXCEPT !.failed = @ \cup {NextId(r)},
                                         !.ops = @ \cup {"fetch"}],
              "fetch_failed", 0, "logged_out")
    /\ UNCHANGED <<envVars, emails, acct, email_ids, pos, fetched_total,
                   pending, nruns, parseVars, loaded, batching>>

\* _fetch_single_email: the fetch answers not OK, or fetch, parse or decode
\* raises; the message is skipped
FetchFails(r) ==
    /\ pc[r] = "fetch"
    /\ Advance(r)
    /\ cur' = [cur EXCEPT ![r].failed = @ \cup {NextId(r)},
                          ![r].ops = @ \cup {"fetch"}]
    /\ UNCHANGED <<envVars, storeVars, acct, imap, email_ids, fetched_total,
                   pending, nruns, last, sync_all, parseVars, loaded, batching>>

\* _fetch_single_email: the message is fetched and parsed, and its
\* message_id is already archived; the message is skipped
FetchExisting(r) ==
    /\ pc[r] = "fetch"
    /\ Existing(emails, NextMessageId(r))
    /\ Advance(r)
    /\ cur' = [cur EXCEPT ![r].ops = @ \cup {"fetch"}]
    /\ UNCHANGED <<envVars, storeVars, acct, imap, email_ids, fetched_total,
                   pending, nruns, last, sync_all, parseVars, loaded, batching>>

\* _fetch_single_email: the message is fetched and parsed, its message_id is
\* not archived, and the row is added to the session
FetchNew(r) ==
    /\ pc[r] = "fetch"
    /\ ~Existing(emails, NextMessageId(r))
    /\ pending' = [pending EXCEPT ![r] = NextMessageId(r)]
    /\ pc' = [pc EXCEPT ![r] = "insert"]
    /\ cur' = [cur EXCEPT ![r].ops = @ \cup {"fetch"}]
    /\ UNCHANGED <<envVars, storeVars, acct, imap, email_ids, pos,
                   fetched_total, nruns, last, sync_all, parseVars, loaded, batching>>

\* mutant: the row is counted and never committed
InsertOk_NoCommit(r) ==
    /\ pc[r] = "insert"
    /\ UniqueOk(emails, pending[r])
    /\ fetched_total' = [fetched_total EXCEPT ![r] = @ + 1]
    /\ pending' = [pending EXCEPT ![r] = None]
    /\ Advance(r)
    /\ cur' = [cur EXCEPT ![r].ops = @ \cup {"insert"}]
    /\ UNCHANGED <<envVars, storeVars, acct, imap, email_ids, nruns, last,
                   sync_all, parseVars, loaded, batching>>

\* db.add(archived); db.commit(): the row is inserted and counted
InsertOk(r) ==
    /\ pc[r] = "insert"
    /\ UniqueOk(emails, pending[r])
    /\ emails' = Append(emails, [account_id |-> acct[r],
                                 message_id |-> pending[r]])
    /\ fetched_total' = [fetched_total EXCEPT ![r] = @ + 1]
    /\ pending' = [pending EXCEPT ![r] = None]
    /\ Advance(r)
    /\ cur' = [cur EXCEPT ![r].archived = @ \cup {pending[r]},
                          ![r].ops = @ \cup {"insert"}]
    /\ UNCHANGED <<envVars, accounts, acct, imap, email_ids, nruns, last,
                   sync_all, parseVars, loaded, batching>>

\* mutant: the IntegrityError is not caught in _fetch_single_email and
\* reaches the except branch of fetch_emails
InsertDuplicate_Aborts(r) ==
    /\ pc[r] = "insert"
    /\ ~UniqueOk(emails, pending[r])
    /\ RecordFailed(acct[r], "store_error")
    /\ Return(r, acct[r], [cur[r] EXCEPT !.ops = @ \cup {"duplicate"}],
              "insert_failed", 0, "logged_out")
    /\ UNCHANGED <<envVars, emails, acct, email_ids, pos, fetched_total,
                   pending, nruns, parseVars, loaded, batching>>

\* db.commit() raises IntegrityError: another run archived the message_id
\* meanwhile; rollback, the message is skipped
InsertDuplicate(r) ==
    /\ pc[r] = "insert"
    /\ ~UniqueOk(emails, pending[r])
    /\ pending' = [pending EXCEPT ![r] = None]
    /\ Advance(r)
    /\ cur' = [cur EXCEPT ![r].ops = @ \cup {"duplicate"}]
    /\ UNCHANGED <<envVars, storeVars, acct, imap, email_ids, fetched_total,
                   nruns, last, sync_all, parseVars, loaded, batching>>

\* mutant: the rollback after a failed insert also undoes the rows the run
\* had committed
InsertFails_DropsRows(r) ==
    /\ pc[r] = "insert"
    /\ emails' = cur[r].rows0
    /\ pending' = [pending EXCEPT ![r] = None]
    /\ Advance(r)
    /\ cur' = [cur EXCEPT ![r].failed = @ \cup {NextId(r)}]
    /\ UNCHANGED <<envVars, accounts, acct, imap, email_ids, fetched_total,
                   nruns, last, sync_all, parseVars, loaded, batching>>

\* db.commit() raises for another reason; rollback, the message is skipped
InsertFails(r) ==
    /\ pc[r] = "insert"
    /\ pending' = [pending EXCEPT ![r] = None]
    /\ Advance(r)
    /\ cur' = [cur EXCEPT ![r].failed = @ \cup {NextId(r)}]
    /\ UNCHANGED <<envVars, storeVars, acct, imap, email_ids, fetched_total,
                   nruns, last, sync_all, parseVars, loaded, batching>>

\* mutant: the checkpoint commits without setting last_sync_status
Checkpoint_NoStatus(r) ==
    /\ pc[r] = "checkpoint"
    /\ pc' = [pc EXCEPT ![r] = AfterCheckpoint(pos[r], Len(email_ids[r]))]
    /\ cur' = [cur EXCEPT ![r].batches = @ + 1]
    /\ UNCHANGED <<envVars, storeVars, acct, imap, email_ids, pos,
                   fetched_total, pending, nruns, last, sync_all, parseVars, loaded, batching>>

\* the checkpoint after a batch: last_sync_status = "partial", commit
Checkpoint(r) ==
    /\ pc[r] = "checkpoint"
    /\ accounts' = [accounts EXCEPT ![acct[r]].last_sync_status = "partial"]
    /\ pc' = [pc EXCEPT ![r] = AfterCheckpoint(pos[r], Len(email_ids[r]))]
    /\ cur' = [cur EXCEPT ![r].batches = @ + 1]
    /\ UNCHANGED <<envVars, emails, acct, imap, email_ids, pos, fetched_total,
                   pending, nruns, last, sync_all, parseVars, loaded, batching>>

\* mutant: the except branch also adds the count of the run to emails_count
CheckpointFails_CountsRows(r) ==
    /\ pc[r] = "checkpoint"
    /\ accounts' = [accounts EXCEPT
          ![acct[r]].last_sync_status = "failed",
          ![acct[r]].last_sync_error = "store_error",
          ![acct[r]].emails_count = @ + fetched_total[r]]
    /\ Return(r, acct[r], cur[r], "checkpoint_failed", 0, "logged_out")
    /\ UNCHANGED <<envVars, emails, acct, email_ids, pos, fetched_total,
                   pending, nruns, parseVars, loaded, batching>>

\* the checkpoint's commit raises: the except branch records the failure
\* and fetch_emails returns 0
CheckpointFails(r) ==
    /\ pc[r] = "checkpoint"
    /\ RecordFailed(acct[r], "store_error")
    /\ Return(r, acct[r], cur[r], "checkpoint_failed", 0, "logged_out")
    /\ UNCHANGED <<envVars, emails, acct, email_ids, pos, fetched_total,
                   pending, nruns, parseVars, loaded, batching>>

\* mutant: the final update is written without the filter on the account id
Finalize_AllAccounts(r) ==
    /\ pc[r] = "finalize"
    /\ accounts' = [b \in Accounts |->
          [accounts[b] EXCEPT
              !.last_sync_at = now,
              !.last_sync_status = FinalStatus(fetched_total[r]),
              !.emails_count = @ + fetched_total[r],
              !.last_sync_error = None]]
    /\ Return(r, acct[r], cur[r], "finalized", fetched_total[r], "logged_out")
    /\ UNCHANGED <<envVars, emails, acct, email_ids, pos, fetched_total,
                   pending, nruns, parseVars, loaded, batching>>

\* the final update of the account, committed; fetch_emails returns
\* fetched_total
Finalize(r) ==
    LET a == acct[r]
    IN  /\ pc[r] = "finalize"
        /\ accounts' = [accounts EXCEPT
              ![a].last_sync_at = now,
              ![a].last_sync_status = FinalStatus(fetched_total[r]),
              ![a].emails_count = @ + fetched_total[r],
              ![a].last_sync_error = None]
        /\ Return(r, acct[r], cur[r], "finalized", fetched_total[r], "logged_out")
        /\ UNCHANGED <<envVars, emails, acct, email_ids, pos, fetched_total,
                       pending, nruns, parseVars, loaded, batching>>

\* the final commit raises: the session rolls the update back, the except
\* branch records the failure and fetch_emails returns 0
FinalizeFails(r) ==
    /\ pc[r] = "finalize"
    /\ RecordFailed(acct[r], "store_error")
    /\ Return(r, acct[r], cur[r], "finalize_failed", 0, "logged_out")
    /\ UNCHANGED <<envVars, emails, acct, email_ids, pos, fetched_total,
                   pending, nruns, parseVars, loaded, batching>>

\* the process dies in the middle of a run; what is committed stays
Crash(r) ==
    /\ pc[r] # "idle"
    /\ Return(r, acct[r], cur[r], "crashed", 0, "none")
    /\ UNCHANGED <<envVars, storeVars, acct, email_ids, pos, fetched_total,
                   pending, nruns, parseVars, loaded, batching>>

(* ------------------------------- Spec ---------------------------------- *)
\* a step of a run that has connected
RunStep(r) ==
    \/ SearchOk(r)
    \/ SearchNotOk(r)
    \/ \E err \in SearchErrors : SearchRaises(r, err)
    \/ FetchFails(r)
    \/ FetchExisting(r)
    \/ FetchNew(r)
    \/ InsertOk(r)
    \/ InsertFails(r)
    \/ Checkpoint(r)
    \/ CheckpointFails(r)
    \/ Finalize(r)
    \/ FinalizeFails(r)

\* the environment: the clock and the mail servers
Env ==
    \/ Tick
    \/ \E a \in Accounts, h \in Headers \cup {NoHeader} : Deliver(a, h)

\* the runs follow one another, as the cron driver starts them
Next ==
    \/ Env
    \/ \E r \in Runs, a \in Accounts : StartRun(r, a)
    \/ \E r \in Runs : RunStep(r)
    \/ \E r \in Runs : Crash(r)

Spec == Init /\ [][Next]_vars

\* the runs overlap: each in a thread and a store session of its own
NextConc ==
    \/ Env
    \/ \E r \in Runs, a \in Accounts : StartThread(r, a)
    \/ \E r \in Runs : RunStep(r)
    \/ \E r \in Runs : InsertDuplicate(r)

SpecConc == Init /\ [][NextConc]_vars

(* ------------------------------ SpecRace ------------------------------- *)
\* self.account.emails_count += fetched_total, the read: a commit of the
\* session (every insert, every checkpoint) has expired the attributes of
\* self.account, so the read loads the committed row; a run without a commit
\* (no id in its window) keeps what it has and, adding 0, changes nothing
FinalizeLoad(r) ==
    /\ pc[r] = "finalize"
    /\ pc' = [pc EXCEPT ![r] = "finalize_commit"]
    /\ loaded' = [loaded EXCEPT ![r] =
          IF cur[r].batches > 0 THEN accounts[acct[r]].emails_count
                                ELSE NotLoaded]
    /\ UNCHANGED <<envVars, storeVars, acct, imap, email_ids, pos,
                   fetched_total, pending, histVars, sync_all, parseVars,
                   batching>>

\* the final commit: the UPDATE sets the attributes that changed in the
\* session, emails_count to the value computed from what the session read
FinalizeCommit(r) ==
    LET a == acct[r]
    IN  /\ pc[r] = "finalize_commit"
        /\ accounts' = [accounts EXCEPT
              ![a].last_sync_at = now,
              ![a].last_sync_status = FinalStatus(fetched_total[r]),
              ![a].emails_count =
                  IF fetched_total[r] > 0 THEN loaded[r] + fetched_total[r]
                                          ELSE @,
              ![a].last_sync_error = None]
        /\ loaded' = [loaded EXCEPT ![r] = NotLoaded]
        /\ Return(r, a, cur[r], "finalized", fetched_total[r], "logged_out")
        /\ UNCHANGED <<envVars, emails, acct, email_ids, pos, fetched_total,
                       pending, nruns, parseVars, batching>>

\* a step of a run in a thread of its own, over a server and a store that do
\* not fail; the final update is a read and a commit that other threads can
\* come between
RaceStep(r) ==
    \/ SearchOk(r)
    \/ FetchExisting(r)
    \/ FetchNew(r)
    \/ InsertOk(r)
    \/ InsertDuplicate(r)
    \/ Checkpoint(r)
    \/ FinalizeLoad(r)
    \/ FinalizeCommit(r)

NextRace ==
    \/ Env
    \/ \E r \in Runs, a \in Accounts : StartThread(r, a)
    \/ \E r \in Runs : RaceStep(r)

SpecRace == Init /\ [][NextRace]_vars

(* ------------------------------ SpecBatch ------------------------------ *)
\* the search has returned an id list and the loop starts with a batch size
InitBatch ==
    /\ InitSync
    /\ email_body = NoMessage
    /\ archived = NotParsed
    /\ batching \in {[NoBatching EXCEPT !.batch_size = b,
                                        !.email_ids = [i \in 1..n |-> i]] :
                       n \in 0..MaxIds, b \in 1..MaxBatchSize}

\* for start in range(0, total, batch_size): the next batch is sliced
BatchStart ==
    /\ batching.pc = "range"
    /\ batching.start < Len(batching.email_ids)
    /\ batching' = [batching EXCEPT
          !.pc = "batch",
          !.batch = Slice(batching.email_ids, batching.start,
                          batching.batch_size),
          !.size = 0]
    /\ UNCHANGED <<envVars, storeVars, runVars, histVars, sync_all, parseVars,
                   loaded>>

\* for email_id in batch: _fetch_single_email(email_id)
BatchEmail ==
    /\ batching.pc = "batch"
    /\ batching.batch # <<>>
    /\ batching' = [batching EXCEPT
          !.processed = Append(@, Head(batching.batch)),
          !.batch = Tail(@),
          !.size = @ + 1]
    /\ UNCHANGED <<envVars, storeVars, runVars, histVars, sync_all, parseVars,
                   loaded>>

\* the batch is through: the checkpoint, and range() steps by batch_size
BatchCheckpoint ==
    /\ batching.pc = "batch"
    /\ batching.batch = <<>>
    /\ batching' = [batching EXCEPT
          !.pc = "range",
          !.checkpoints = @ + 1,
          !.sizes = Append(@, batching.size),
          !.start = @ + batching.batch_size]
    /\ UNCHANGED <<envVars, storeVars, runVars, histVars, sync_all, parseVars,
                   loaded>>

\* range() is exhausted: the loop ends
BatchEnd ==
    /\ batching.pc = "range"
    /\ batching.start >= Len(batching.email_ids)
    /\ batching' = [batching EXCEPT !.pc = "end"]
    /\ UNCHANGED <<envVars, storeVars, runVars, histVars, sync_all, parseVars,
                   loaded>>

NextBatch ==
    \/ BatchStart
    \/ BatchEmail
    \/ BatchCheckpoint
    \/ BatchEnd

SpecBatch == InitBatch /\ [][NextBatch]_vars

(* ---------------------- sync_all_enabled_accounts ---------------------- *)
\* the account is disabled in the web interface
Disable(a) ==
    /\ accounts[a].enabled
    /\ accounts' = [accounts EXCEPT ![a].enabled = FALSE]
    /\ UNCHANGED <<envVars, emails, runVars, histVars, sync_all, parseVars, loaded, batching>>

\* connect(): the query for the account raises; nothing catches it in
\* connect, fetch_emails or sync_account
LookupRaises(r, a) ==
    /\ NewArchiver(r, a)
    /\ Return(r, a, NoCur, "raised", 0, "none")
    /\ UNCHANGED <<envVars, storeVars, parseVars, loaded, batching>>

\* connect(): decrypt_secret, IMAP4_SSL or login raises and the commit that
\* records the failure raises too
ConnectFailsRaises(r, a, err) ==
    /\ accounts[a].enabled
    /\ NewArchiver(r, a)
    /\ Return(r, a, [NoCur EXCEPT !.ops = {"connect_failed"}], "raised", 0,
              IF err = "login_error" THEN "open" ELSE "none")
    /\ UNCHANGED <<envVars, storeVars, parseVars, loaded, batching>>

\* sync_account raises before fetch_emails has connected
ConnectRaises(r, a) ==
    \/ LookupRaises(r, a)
    \/ \E err \in ConnectErrors : ConnectFailsRaises(r, a, err)

\* the try block of fetch_emails raises (select, search, or the commit of the
\* checkpoint or of the final update) and the commit that records the failure
\* raises too: logout, and the exception leaves fetch_emails and sync_account
AbortRaises(r) ==
    /\ pc[r] \in {"search", "checkpoint", "finalize"}
    /\ Return(r, acct[r], cur[r], "raised", 0, "logged_out")
    /\ UNCHANGED <<envVars, storeVars, acct, email_ids, pos, fetched_total,
                   pending, nruns, parseVars, loaded, batching>>

\* the ids of the enabled accounts, as the query returns them
EnabledAccounts(tbl) ==
    SelectSeq([i \in 1..Cardinality(Accounts) |-> i], LAMBDA a : tbl[a].enabled)

\* the number of entries of results with this value of success
CountSuccess(results, v) ==
    Cardinality({k \in 1..Len(results) : results[k].success = v})

\* sync_all_enabled_accounts starts: the query for the enabled accounts
SyncAllQuery ==
    /\ sync_all.pc = "idle"
    /\ \A r \in Runs : pc[r] = "idle"
    /\ nruns + Len(EnabledAccounts(accounts)) <= MaxRuns
    /\ sync_all' = [NoSyncAll EXCEPT !.pc = "loop",
                                     !.accounts = EnabledAccounts(accounts)]
    /\ UNCHANGED <<envVars, storeVars, runVars, histVars, parseVars, loaded, batching>>

\* the loop calls sync_account for the next account of the list
SyncAllCall ==
    /\ sync_all.pc = "loop"
    /\ Len(sync_all.results) < Len(sync_all.accounts)
    /\ pc["cron"] = "idle"
    /\ LET a == sync_all.accounts[Len(sync_all.results) + 1]
       IN  Connect("cron", a) \/ ConnectRaises("cron", a)

\* mutant: an exception of sync_account is not caught in the loop and ends
\* sync_all_enabled_accounts
SyncAllReturn_AfterRaise ==
    /\ sync_all.pc = "loop"
    /\ pc["cron"] = "idle"
    /\ \/ Len(sync_all.results) = Len(sync_all.accounts)
       \/ /\ sync_all.results # <<>>
          /\ ~sync_all.results[Len(sync_all.results)].success
    /\ sync_all' = [sync_all EXCEPT
          !.pc = "done",
          !.ret = [total |-> Len(sync_all.accounts),
                   successful |-> CountSuccess(sync_all.results, TRUE),
                   failed |-> CountSuccess(sync_all.results, FALSE)]]
    /\ UNCHANGED <<envVars, storeVars, runVars, histVars, parseVars, loaded, batching>>

\* the loop is over: the summary is returned
SyncAllReturn ==
    /\ sync_all.pc = "loop"
    /\ pc["cron"] = "idle"
    /\ Len(sync_all.results) = Len(sync_all.accounts)
    /\ sync_all' = [sync_all EXCEPT
          !.pc = "done",
          !.ret = [total |-> Len(sync_all.accounts),
                   successful |-> CountSuccess(sync_all.results, TRUE),
                   failed |-> CountSuccess(sync_all.results, FALSE)]]
    /\ UNCHANGED <<envVars, storeVars, runVars, histVars, parseVars, loaded, batching>>

\* the cron driver: sync_all_enabled_accounts, over a store that can also
\* fail at the lookup of the account and at the commit of a recorded failure
NextAll ==
    \/ Env
    \/ \E a \in Accounts : Disable(a)
    \/ SyncAllQuery
    \/ SyncAllCall
    \/ \E r \in Runs : RunStep(r)
    \/ \E r \in Runs : AbortRaises(r)
    \/ SyncAllReturn

SpecAll == Init /\ [][NextAll]_vars

(* ------------------------------ SpecLive -------------------------------- *)
\* connect(): the server accepts the connection and never answers the
\* greeting or the login; IMAP4_SSL and login are called without a timeout,
\* so the call never returns
ConnectHangs(r, a) ==
    /\ accounts[a].enabled
    /\ \A q \in Runs : pc[q] = "idle"
    /\ NewArchiver(r, a)
    /\ pc' = [pc EXCEPT ![r] = "connect"]
    /\ imap' = [imap EXCEPT ![r] = "none"]
    /\ cur' = [cur EXCEPT ![r] = [NoCur EXCEPT !.rows0 = emails]]
    /\ UNCHANGED <<envVars, storeVars, last, sync_all, parseVars, loaded, batching>>

\* the runs follow one another; a server may stop answering
NextLive ==
    \/ \E a \in Accounts, h \in Headers \cup {NoHeader} : Deliver(a, h)
    \/ \E r \in Runs, a \in Accounts : StartRun(r, a)
    \/ \E a \in Accounts : ConnectHangs("cron", a)
    \/ \E r \in Runs : RunStep(r)

\* the thread of a run that can take a step takes one
SpecLive == Init /\ [][NextLive]_vars /\ WF_vars(\E r \in Runs : RunStep(r))

(* ----------------------------- SpecParse -------------------------------- *)
\* _fetch_single_email builds the ArchivedEmail from the raw message
ParseMessage ==
    /\ archived = NotParsed
    /\ archived' = Parse(email_body)
    /\ UNCHANGED <<envVars, storeVars, runVars, histVars, sync_all,
                   email_body, loaded, batching>>

NextParse == ParseMessage

SpecParse == InitParse /\ [][NextParse]_vars

TypeOK ==
    /\ now \in 0..MaxTime
    /\ Delivered(Accounts) <= MaxMailbox
    /\ \A r \in Runs : pc[r] \in {"idle", "connect", "search", "fetch",
                                   "insert", "checkpoint", "finalize",
                                   "finalize_commit"}
    /\ \A r \in Runs : pos[r] <= Len(email_ids[r])

(* ------------------------------ claims --------------------------------- *)
\* is a run of account a in progress
Running(a) == \E r \in Runs : pc[r] # "idle" /\ acct[r] = a

\* has run r issued its SEARCH and got the ids
Searched(r) == pc[r] \in {"fetch", "insert", "checkpoint", "finalize"}

\* the message_id of the k-th id of the window of run r
MidOf(r, k) == MessageId(mailbox[acct[r]][email_ids[r][k]], email_ids[r][k])

\* the ids of the window of run r, as a set
Window(r) == {email_ids[r][k] : k \in 1..Len(email_ids[r])}

\* C1: no two rows of archived_emails have the same message_id, whatever
\* runs, of whatever accounts, have run or are running (overlapping runs
\* included)
C1_UniqueMessageId ==
    \A i, j \in 1..Len(emails) :
        emails[i].message_id = emails[j].message_id => i = j

\* C1 witness: a run has processed a message whose message_id another
\* account had archived, and has not inserted it
C1_Witness ==
    \E r \in Runs :
        /\ pos[r] > 0
        /\ MidOf(r, pos[r]) \notin cur[r].archived
        /\ \E k \in 1..Len(emails) :
              /\ emails[k].message_id = MidOf(r, pos[r])
              /\ emails[k].account_id # acct[r]

\* C2: a message skipped on a failure in a run that finalized is in the
\* search window of the next run of the account
C2_SkippedIsInNextWindow ==
    \A r \in Runs :
        (Searched(r) /\ last[acct[r]].outcome = "finalized")
            => last[acct[r]].failed \subseteq Window(r)

\* C3: once a run has finalized, every message of the inbox that its search
\* criterion covers and that it did not skip on a failure is archived or is
\* covered by the criterion of the next run
C3_NeverMissed ==
    \A a \in Accounts :
        (~Running(a) /\ last[a].outcome = "finalized") =>
            \A i \in 1..Len(mailbox[a]) :
                (Matches(mailbox[a][i], last[a].crit) /\ i \notin last[a].failed)
                    => \/ Existing(emails, MessageId(mailbox[a][i], i))
                       \/ Matches(mailbox[a][i],
                                  SearchCriteria(accounts[a].last_sync_at))
\* the message_ids of the rows of archived_emails
Stored == {emails[k].message_id : k \in 1..Len(emails)}

\* the number of ids of the window of the last run of account a
LastTotal(a) ==
    Len(ImapSearch(SubSeq(mailbox[a], 1, last[a].seen), last[a].crit))

\* the last run of account a had a window of two or more batches and was
\* interrupted after a completed batch and before the last one completed
Interrupted(a) ==
    /\ last[a].outcome = "crashed"
    /\ last[a].batches >= 1
    /\ last[a].batches * batch_size < LastTotal(a)

\* run r follows such an interrupted run of its account
AfterInterrupted(r) == pc[r] # "idle" /\ Interrupted(acct[r])

\* C4 (as amended): a run over a window of two or more batches that is
\* interrupted after a completed batch and before the last one leaves the
\* messages it archived in the store and last_sync_status = "partial"; the
\* next run searches with the same criterion, inserts none of those messages
\* again and, when it has gone through its window, has archived every
\* message of it that it did not skip on a failure
C4_BatchCrashRecovery ==
    /\ \A a \in Accounts :
          (~Running(a) /\ Interrupted(a))
              => /\ last[a].archived \subseteq Stored
                 /\ accounts[a].last_sync_status = "partial"
    /\ \A r \in Runs :
          AfterInterrupted(r) =>
              /\ last[acct[r]].archived \subseteq Stored
              /\ cur[r].archived \cap last[acct[r]].archived = {}
              /\ C1_UniqueMessageId
              /\ Searched(r) => cur[r].crit = last[acct[r]].crit
              /\ pc[r] = "finalize" =>
                    \A k \in 1..Len(email_ids[r]) :
                        email_ids[r][k] \notin cur[r].failed
                            => MidOf(r, k) \in Stored

\* C4 witness: the run after a run interrupted after batch 1 of 2 has gone
\* through its window and has archived the remainder
C4_Witness ==
    \E r \in Runs :
        /\ AfterInterrupted(r)
        /\ pc[r] = "finalize"
        /\ last[acct[r]].batches = 1
        /\ last[acct[r]].archived # {}
        /\ Len(email_ids[r]) >= 2
        /\ cur[r].archived # {}

\* C4 (as claimed): the run after an interrupted run archives every message
\* of the window
C4_Original ==
    \A r \in Runs :
        (AfterInterrupted(r) /\ pc[r] = "finalize") =>
            \A k \in 1..Len(email_ids[r]) : MidOf(r, k) \in Stored

\* run r follows a finalized run of its account, and no message has been
\* delivered to the inbox since the search of that run
SecondRun(r) ==
    /\ pc[r] # "idle"
    /\ last[acct[r]].outcome = "finalized"
    /\ Len(mailbox[acct[r]]) = last[acct[r]].seen

\* the run has inserted and counted nothing
Idle(r) == fetched_total[r] = 0 /\ emails = cur[r].rows0

\* C5 (as amended): a second run of an account, after a run that finalized
\* without skipping a message on a failure and with no message delivered
\* since that run's search, counts no message and leaves the rows of
\* archived_emails as they were
C5_Idempotence ==
    \A r \in Runs :
        (SecondRun(r) /\ last[acct[r]].failed = {}) => Idle(r)

\* C5 witness: such a second run has gone through a window that is not empty
C5_Witness ==
    \E r \in Runs :
        /\ SecondRun(r)
        /\ last[acct[r]].failed = {}
        /\ last[acct[r]].fetched > 0
        /\ pc[r] = "finalize"
        /\ Len(email_ids[r]) > 0

\* C5 (as claimed): the second of two runs in succession with no message
\* delivered in between counts no message and leaves the rows as they were
C5_Original == \A r \in Runs : SecondRun(r) => Idle(r)
\* the outcomes of a run that ends before any fetch
EarlyFailures == {"connect_failed", "select_failed", "search_failed",
                  "search_not_ok"}

\* C6: last_sync_at of an account changes only in the final update of a run
\* of that account that has searched and has processed every id of its
\* window; no other step of a run, failed or not, changes it
C6_LastSyncAtOnlyAtFinalize ==
    [][\A a \in Accounts :
          accounts'[a].last_sync_at # accounts[a].last_sync_at =>
              \E r \in Runs :
                  /\ acct[r] = a
                  /\ pc[r] = "finalize"
                  /\ "search" \in cur[r].ops
                  /\ pos[r] = Len(email_ids[r])
                  /\ last'[a].outcome = "finalized"]_vars

\* C6 witness: a run has failed before any fetch, on an account that an
\* earlier run had finalized, and last_sync_at is still set
C6_Witness ==
    \E a \in Accounts :
        /\ last[a].outcome \in EarlyFailures
        /\ accounts[a].last_sync_status = "failed"
        /\ accounts[a].last_sync_at # NoTime

\* C7: the final update of a run sets, in one commit, last_sync_at to the
\* current time, last_sync_status to success if the run counted a message
\* and to partial if not, emails_count to its value plus the count, and
\* last_sync_error to NULL
C7_Finalize ==
    [][\A r \in Runs :
          (pc[r] = "finalize" /\ pc'[r] = "idle"
              /\ last'[acct[r]].outcome = "finalized") =>
            accounts' = [accounts EXCEPT ![acct[r]] =
                [enabled |-> accounts[acct[r]].enabled,
                 last_sync_at |-> now,
                 last_sync_status |->
                     IF fetched_total[r] > 0 THEN "success" ELSE "partial",
                 last_sync_error |-> None,
                 emails_count |->
                     accounts[acct[r]].emails_count + fetched_total[r]]]]_vars

\* C7 witness: a run has finalized with a count above 0 on an account whose
\* emails_count was above 0 and whose last run before had failed
C7_Witness ==
    \E a \in Accounts :
        /\ ~Running(a)
        /\ last[a].outcome = "finalized"
        /\ last[a].fetched > 0
        /\ accounts[a].emails_count > last[a].fetched
        /\ accounts[a].last_sync_status = "success"

\* C8: a run whose connect fails ends at once: it returns 0, has not
\* searched, fetched or inserted, and leaves last_sync_status = "failed"
\* with the error text
C8_ConnectFailure ==
    /\ \A r \in Runs :
          pc[r] # "idle" => "connect_failed" \notin cur[r].ops
    /\ \A a \in Accounts :
          "connect_failed" \in last[a].ops =>
              /\ last[a].outcome = "connect_failed"
              /\ last[a].fetched = 0
              /\ last[a].ops = {"connect_failed"}
              /\ last[a].archived = {}
              /\ ~Running(a) =>
                    /\ accounts[a].last_sync_status = "failed"
                    /\ accounts[a].last_sync_error \in ConnectErrors

\* C8 witness: the login of a run has failed on an account whose inbox
\* holds a message, after an earlier run had left another status
C8_Witness ==
    \E a \in Accounts :
        /\ ~Running(a)
        /\ last[a].outcome = "connect_failed"
        /\ accounts[a].last_sync_error = "login_error"
        /\ accounts[a].last_sync_at # NoTime
        /\ Len(mailbox[a]) > 0

\* C9: a run whose select or search fails, by raising or by an answer that
\* is not OK, returns 0 and leaves last_sync_status = "failed" with an
\* error text
C9_SearchFailure ==
    \A a \in Accounts :
        (~Running(a) /\ last[a].outcome \in
                           {"select_failed", "search_failed", "search_not_ok"})
            => /\ last[a].fetched = 0
               /\ accounts[a].last_sync_status = "failed"
               /\ accounts[a].last_sync_error # None

\* C10: a step that skips a message on a failure leaves the run in its
\* batch, moves it to the next id and changes neither the store nor the
\* count; and a run that has reached its final update has processed every
\* id of its window, has archived every message of it that it did not skip
\* on a failure, and has counted every row it inserted
C10_MessageFailureIsSkipped ==
    /\ [][\A r \in Runs :
             cur'[r].failed \ cur[r].failed # {} =>
                 /\ pc'[r] \in {"fetch", "checkpoint"}
                 /\ pos'[r] = pos[r] + 1
                 /\ email_ids'[r] = email_ids[r]
                 /\ fetched_total'[r] = fetched_total[r]
                 /\ storeVars' = storeVars]_vars
    /\ [](\A r \in Runs :
             pc[r] = "finalize" =>
                 /\ pos[r] = Len(email_ids[r])
                 /\ fetched_total[r] = Cardinality(cur[r].archived)
                 /\ cur[r].archived \subseteq Stored
                 /\ \A k \in 1..Len(email_ids[r]) :
                       email_ids[r][k] \notin cur[r].failed
                           => MidOf(r, k) \in Stored)

\* C10 witness: a run has reached its final update after it skipped the
\* first id of its window on a failure and archived the second
C10_Witness ==
    \E r \in Runs :
        /\ pc[r] = "finalize"
        /\ Len(email_ids[r]) >= 2
        /\ email_ids[r][1] \in cur[r].failed
        /\ MidOf(r, 2) \in cur[r].archived

\* the outcomes of a run that aborted: an exception, or an answer that is not
\* OK, ended it before its final update
Aborted == {"connect_failed", "select_failed", "search_failed",
            "search_not_ok", "checkpoint_failed", "finalize_failed"}

\* C11: after a run of an account has returned, last_sync_status is failed
\* with an error text if the run aborted, and success or partial without an
\* error text if it finalized
C11_StatusReflectsOutcome ==
    \A a \in Accounts :
        ~Running(a) =>
            /\ last[a].outcome \in Aborted =>
                  /\ accounts[a].last_sync_status = "failed"
                  /\ accounts[a].last_sync_error \notin {None, ""}
            /\ last[a].outcome = "finalized" =>
                  /\ accounts[a].last_sync_status \in {"success", "partial"}
                  /\ accounts[a].last_sync_error = None

\* C12: a run that has returned has left no IMAP connection open
C12_ConnectionClosed ==
    \A r \in Runs : pc[r] = "idle" => imap[r] # "open"

\* C13: when a run is about to commit a row whose message_id another run has
\* committed since the lookup, its next step inserts no row, counts nothing,
\* writes no account and moves the run to its next id; no message_id is in
\* two rows and every run has counted exactly the rows it inserted
C13_RaceLoserSkips ==
    /\ [][\A r \in Runs :
             (/\ pc[r] = "insert"
              /\ ~UniqueOk(emails, pending[r])
              /\ <<pc[r], pos[r]>>' # <<pc[r], pos[r]>>) =>
                 /\ pc'[r] \in {"fetch", "checkpoint"}
                 /\ pos'[r] = pos[r] + 1
                 /\ fetched_total'[r] = fetched_total[r]
                 /\ storeVars' = storeVars]_vars
    /\ [](\A r \in Runs :
             /\ fetched_total[r] = Cardinality(cur[r].archived)
             /\ \A m \in cur[r].archived :
                   Cardinality({k \in 1..Len(emails) :
                                   emails[k].message_id = m}) = 1)

\* C13 witness: a run lost the race for the first id of its window, went on
\* and archived the second, and has reached its final update
C13_Witness ==
    \E r \in Runs :
        /\ pc[r] = "finalize"
        /\ "duplicate" \in cur[r].ops
        /\ Len(email_ids[r]) >= 2
        /\ 1 \notin cur[r].failed
        /\ MidOf(r, 1) \notin cur[r].archived
        /\ MidOf(r, 1) \in Stored
        /\ MidOf(r, 2) \in cur[r].archived

\* the rows of archived_emails that reference account b
RowsOf(rows, b) == SelectSeq(rows, LAMBDA e : e.account_id = b)

\* does this step belong to a run of account b
StepOf(b) ==
    \/ last'[b] # last[b]
    \/ \E r \in Runs : /\ acct'[r] = b
                       /\ <<pc[r], pos[r], cur[r]>>' # <<pc[r], pos[r], cur[r]>>
    \/ \E r \in Runs : /\ acct'[r] = b
                       /\ pc[r] = "idle"
                       /\ nruns' # nruns

\* C14: a step of a run of one account, alone or interleaved with a run of
\* another account, changes neither the row of mail_accounts nor the rows of
\* archived_emails of the other account; and whatever the runs of other
\* accounts have done, a run can take its next step without failing: search,
\* process the next id, checkpoint, and make its final update
C14_AccountIsolation ==
    /\ [][\A b \in Accounts :
             (accounts'[b] # accounts[b]
                 \/ RowsOf(emails', b) # RowsOf(emails, b)) =>
                 /\ StepOf(b)
                 /\ \A c \in Accounts \ {b} :
                       /\ accounts'[c] = accounts[c]
                       /\ RowsOf(emails', c) = RowsOf(emails, c)]_vars
    /\ [](\A r \in Runs :
             /\ pc[r] = "search" => ENABLED SearchOk(r)
             /\ pc[r] = "fetch" => ENABLED (FetchExisting(r) \/ FetchNew(r))
             /\ pc[r] = "insert" => ENABLED (InsertOk(r) \/ InsertDuplicate(r))
             /\ pc[r] = "checkpoint" => ENABLED Checkpoint(r)
             /\ pc[r] = "finalize" => ENABLED Finalize(r))

\* C14 witness: a run of one account has archived a message and then failed
\* while a run of another account was in progress, and that run has archived
\* its own message and reached its final update
C14_Witness ==
    \E r \in Runs : \E a \in Accounts \ {acct[r]} :
        /\ pc[r] = "finalize"
        /\ cur[r].rows0 = <<>>
        /\ cur[r].archived # {}
        /\ last[a].outcome = "checkpoint_failed"
        /\ last[a].archived # {}
        /\ accounts[a].last_sync_status = "failed"
        /\ accounts[acct[r]].last_sync_status = "partial"

\* C15: while sync_all_enabled_accounts runs and when it has returned, the
\* k-th entry of results is the outcome of the one call of sync_account for
\* the k-th account of its list: success = false, fetched = 0 and an error
\* text if the call raised, what the call returned if not; no account is
\* listed twice; it returns only when every account of the list has an
\* entry, and then total = the length of the list = successful + failed = the
\* number of entries
C15_SyncAllSummary ==
    LET sa == sync_all
    IN  sa.pc \in {"loop", "done"} =>
          /\ Len(sa.results) <= Len(sa.accounts)
          /\ \A j, k \in 1..Len(sa.accounts) :
                sa.accounts[j] = sa.accounts[k] => j = k
          /\ \A k \in 1..Len(sa.results) :
                LET res == sa.results[k]
                    run == last[sa.accounts[k]]
                IN  /\ res.account_id = sa.accounts[k]
                    /\ run.outcome # "none"
                    /\ res.success = (run.outcome # "raised")
                    /\ res.success => (res.fetched = run.fetched
                                          /\ res.error = None)
                    /\ ~res.success => (res.fetched = 0 /\ res.error # None)
          /\ sa.pc = "done" =>
                /\ Len(sa.results) = Len(sa.accounts)
                /\ sa.ret.total = Len(sa.accounts)
                /\ sa.ret.total = sa.ret.successful + sa.ret.failed
                /\ sa.ret.successful = CountSuccess(sa.results, TRUE)
                /\ sa.ret.failed = CountSuccess(sa.results, FALSE)

\* C15 witness: sync_all_enabled_accounts has returned after the run of its
\* first account raised and the run of its second account archived a message
C15_Witness ==
    /\ sync_all.pc = "done"
    /\ Len(sync_all.results) = 2
    /\ ~sync_all.results[1].success
    /\ sync_all.results[2].success
    /\ sync_all.results[2].fetched > 0
    /\ sync_all.ret = [total |-> 2, successful |-> 1, failed |-> 1]

\* C16: no run ends with an exception that leaves sync_account
C16_NoExceptionEscapes ==
    \A a \in Accounts : last[a].outcome # "raised"

\* the number of batches of which run r has processed every id
BatchesDone(r) ==
    IF pos[r] = Len(email_ids[r]) /\ pos[r] > 0
    THEN (pos[r] + batch_size - 1) \div batch_size
    ELSE pos[r] \div batch_size

\* C17: while a run fetches or inserts a message of batch k+1, the
\* checkpoints of the batches 1..k are committed and the account shows
\* partial; when the run is at the checkpoint of batch k, every id of the
\* batch is processed, no row is left uncommitted in the session, the rows
\* the run inserted are in the store, and the checkpoints of the batches
\* before k are committed
C17_CheckpointOrdering ==
    \A r \in Runs :
        /\ pc[r] \in {"fetch", "insert"} =>
              /\ pos[r] < Len(email_ids[r])
              /\ cur[r].batches = pos[r] \div batch_size
              /\ cur[r].batches = BatchesDone(r)
              /\ cur[r].batches > 0 =>
                    accounts[acct[r]].last_sync_status = "partial"
        /\ pc[r] = "checkpoint" =>
              /\ pos[r] % batch_size = 0 \/ pos[r] = Len(email_ids[r])
              /\ cur[r].batches = BatchesDone(r) - 1
              /\ pending[r] = None
              /\ cur[r].archived \subseteq Stored
        /\ pc[r] = "finalize" => cur[r].batches = BatchesDone(r)

\* C17 witness: a run has archived the message of its first batch, has
\* committed the checkpoint and is about to fetch the first id of its second
\* batch
C17_Witness ==
    \E r \in Runs :
        /\ pc[r] = "fetch"
        /\ pos[r] = batch_size
        /\ cur[r].batches = 1
        /\ cur[r].archived # {}
        /\ accounts[acct[r]].last_sync_status = "partial"

\* C18: every step leaves the committed rows of archived_emails as they are,
\* in their order, and at most appends rows
C18_RowsOnlyGrow ==
    [][/\ Len(emails') >= Len(emails)
       /\ SubSeq(emails', 1, Len(emails)) = emails]_vars

\* C18 witness: a run archived the first message of its window, skipped the
\* second on a failure, and then failed at a commit on the account; the row
\* it inserted is in the store
C18_Witness ==
    \E a \in Accounts :
        /\ ~Running(a)
        /\ last[a].outcome \in {"checkpoint_failed", "finalize_failed"}
        /\ 2 \in last[a].failed
        /\ last[a].archived # {}
        /\ \E k \in 1..Len(emails) :
              /\ emails[k].account_id = a
              /\ emails[k].message_id \in last[a].archived

\* the timestamps of the clock
Times == 0..MaxTime

\* C19: the criterion is ALL exactly for an absent last_sync_at and is
\* otherwise SINCE the calendar day of last_sync_at, the same for two
\* timestamps of one day; a run that has searched holds the criterion of its
\* account's last_sync_at and, as its ids, the messages the inbox held at the
\* search that the criterion selects
C19_WindowComputation ==
    /\ SearchCriteria(NoTime).kind = "ALL"
    /\ \A t \in Times :
          /\ SearchCriteria(t).kind = "SINCE"
          /\ SearchCriteria(t).since = t \div TicksPerDay
    /\ \A t1, t2 \in Times :
          (t1 \div TicksPerDay = t2 \div TicksPerDay)
              => SearchCriteria(t1) = SearchCriteria(t2)
    /\ \A r \in Runs :
          Searched(r) =>
              LET at == accounts[acct[r]].last_sync_at
              IN  /\ cur[r].crit.kind = "ALL" <=> at = NoTime
                  /\ cur[r].crit.kind = "SINCE" =>
                        cur[r].crit.since = at \div TicksPerDay
                  /\ Window(r) =
                        {i \in 1..cur[r].seen :
                            \/ at = NoTime
                            \/ mailbox[acct[r]][i].date >= at \div TicksPerDay}

\* C19 witness: a run has searched SINCE the day of a last_sync_at that is
\* not at the start of its day, and its window holds a message of that day
C19_Witness ==
    \E r \in Runs :
        /\ Searched(r)
        /\ accounts[acct[r]].last_sync_at # NoTime
        /\ accounts[acct[r]].last_sync_at % TicksPerDay # 0
        /\ cur[r].crit.kind = "SINCE"
        /\ Window(r) # {}

\* C20: when a run has gone through its window, every message of it that has
\* no Message-ID header, fetched under sequence id n and not skipped on a
\* failure, is archived for the account of the run with message_id unknown-n
C20_FallbackIdArchived ==
    \A r \in Runs :
        pc[r] = "finalize" =>
            \A k \in 1..Len(email_ids[r]) :
                LET n == email_ids[r][k]
                IN  (mailbox[acct[r]][n].hdr = NoHeader
                        /\ n \notin cur[r].failed)
                    => \E i \in 1..Len(emails) :
                          /\ emails[i].message_id = "unknown-" \o ToString(n)
                          /\ emails[i].account_id = acct[r]

\* the positions of the parts of the fetched message that are not
\* attachments and have this content type
BodyParts(ctype) ==
    {i \in 1..Len(email_body.parts) :
        /\ email_body.parts[i].disposition # "attachment"
        /\ email_body.parts[i].ctype = ctype}

\* the first of a set of positions
First(S) == CHOOSE i \in S : \A j \in S : i <= j

\* the stored body is a prefix of this text, or nothing when the text is
\* empty
FromText(stored, text) ==
    IF text.len = 0 THEN stored.len = 0
    ELSE stored.src = text.src /\ stored.len > 0 /\ stored.len <= text.len

\* C21: for a multipart message with two or more text/plain parts that are
\* not attachments, the stored plain body comes from the first of them,
\* whatever it contains; likewise for text/html and the HTML body
C21_FirstWins ==
    (archived.state = "archived" /\ email_body.multipart) =>
        /\ Cardinality(BodyParts("text/plain")) >= 2 =>
              FromText(archived.body_text,
                       email_body.parts[First(BodyParts("text/plain"))].payload)
        /\ Cardinality(BodyParts("text/html")) >= 2 =>
              FromText(archived.body_html,
                       email_body.parts[First(BodyParts("text/html"))].payload)

\* the decoded plain body of the fetched message when it has one part, and
\* the part is the whole payload or a text/plain part that is no attachment
SoleBody ==
    /\ Len(email_body.parts) = 1
    /\ \/ ~email_body.multipart
       \/ BodyParts("text/plain") = {1}

\* the decoded HTML body of a multipart message whose one part is text/html
SoleHtml ==
    /\ Len(email_body.parts) = 1
    /\ email_body.multipart
    /\ BodyParts("text/html") = {1}

\* the smaller of two numbers
Min(a, b) == IF a < b THEN a ELSE b

\* C22 (as amended): the stored plain body of an archived message whose
\* decoded body is not empty is the prefix of the decoded body of length
\* min(len(body), 50000): 60,000 characters are stored as exactly 50,000 and
\* at most 50,000 characters are stored unchanged; an empty decoded body is
\* stored as an unset body. Likewise for the HTML body
C22_Truncation ==
    archived.state = "archived" =>
        LET body == email_body.parts[1].payload
            t == IF SoleBody THEN archived.body_text ELSE archived.body_html
        IN  (SoleBody \/ SoleHtml) =>
              /\ body.len > 0 =>
                    /\ t.src = body.src
                    /\ t.len = Min(body.len, 50000)
              /\ body.len = 60000 => t.len = 50000
              /\ (body.len > 0 /\ body.len <= 50000) => t = body
              /\ body.len = 0 => t = NoBody

\* C22 witness: a plain body of 60,000 characters has been stored with
\* 50,000
C22_Witness ==
    /\ archived.state = "archived"
    /\ SoleBody
    /\ email_body.parts[1].payload.len = 60000
    /\ archived.body_text.len = 50000

\* C22 (as claimed): a body of at most 50,000 characters is stored
\* unchanged, and a longer one as its first 50,000 characters
C22_Original ==
    archived.state = "archived" =>
        LET body == email_body.parts[1].payload
            t == IF SoleBody THEN archived.body_text ELSE archived.body_html
        IN  (SoleBody \/ SoleHtml) =>
              IF body.len <= 50000 THEN t = body
              ELSE t.src = body.src /\ t.len = 50000

\* C23: a message whose one content part cannot be decoded is archived, with
\* its bodies unset
C23_UndecodableIsArchived ==
    (/\ archived # NotParsed
     /\ SoleBody \/ SoleHtml
     /\ email_body.parts[1].charset \notin KnownCharsets) =>
        /\ archived.state = "archived"
        /\ archived.body_text = NoBody
        /\ archived.body_html = NoBody

\* C24: a call of sync_account for an account that the lookup of connect()
\* does not find (missing, or disabled) ends in the same step: no IMAP
\* connection, fetched = 0 reported, no row of mail_accounts or
\* archived_emails changed; and the list sync_all_enabled_accounts builds
\* holds enabled accounts only, so it starts no run for an account that is
\* disabled when it starts
C24_DisabledAccountUntouched ==
    /\ [][(nruns' # nruns /\ ~accounts[acct'["cron"]].enabled) =>
             /\ pc'["cron"] = "idle"
             /\ imap'["cron"] = "none"
             /\ storeVars' = storeVars
             /\ last'[acct'["cron"]].fetched = 0
             /\ last'[acct'["cron"]].ops = {}
             /\ sync_all'.results[Len(sync_all'.results)].fetched = 0]_vars
    /\ [][(sync_all.pc = "idle" /\ sync_all'.pc = "loop") =>
             \A k \in 1..Len(sync_all'.accounts) :
                 accounts[sync_all'.accounts[k]].enabled]_vars

\* C24 witness: sync_account was called for an account that had been
\* disabled and whose inbox holds a message; it returned 0 and nothing of
\* the account is archived
C24_Witness ==
    \E a \in Accounts :
        /\ last[a].outcome = "no_account"
        /\ ~accounts[a].enabled
        /\ Len(mailbox[a]) > 0
        /\ accounts[a].last_sync_status = None
        /\ RowsOf(emails, a) = <<>>
        /\ \E k \in 1..Len(sync_all.results) :
              /\ sync_all.results[k].account_id = a
              /\ sync_all.results[k].fetched = 0

\* C25: every run that has started returns
C25_RunTerminates ==
    \A r \in Runs : (pc[r] # "idle") ~> (pc[r] = "idle")

\* the rows archived_emails has got since run r started
NewRows(r) == SubSeq(emails, Len(cur[r].rows0) + 1, Len(emails))

\* C26: the message_ids a run has inserted belong to ids it has already
\* processed, and are committed; and the rows inserted since the run
\* started are in the order of the id list: while the run fetches or
\* inserts the message of id j, every row it has inserted comes from an id
\* before j
C26_ArchivedInSearchOrder ==
    \A r \in Runs :
        pc[r] # "idle" =>
            /\ cur[r].archived \subseteq Stored
            /\ cur[r].archived \subseteq {MidOf(r, k) : k \in 1..pos[r]}
            /\ Len(NewRows(r)) = Cardinality(cur[r].archived)
            /\ \A i, j \in 1..Len(NewRows(r)) :
                  i < j =>
                      \E k1, k2 \in 1..pos[r] :
                          /\ k1 < k2
                          /\ MidOf(r, k1) = NewRows(r)[i].message_id
                          /\ MidOf(r, k2) = NewRows(r)[j].message_id

\* C26 witness: a run has archived the messages of two ids of its list
C26_Witness ==
    \E r \in Runs :
        /\ pc[r] = "finalize"
        /\ Len(NewRows(r)) = 2
        /\ NewRows(r)[1].message_id = MidOf(r, 1)
        /\ NewRows(r)[2].message_id = MidOf(r, 2)

\* C27: after a run was interrupted having committed a row, its rows are in
\* the store and last_sync_status of the account is partial
C27_InterruptedShowsPartial ==
    \A a \in Accounts :
        (~Running(a) /\ last[a].outcome = "crashed" /\ last[a].archived # {})
            => /\ last[a].archived \subseteq Stored
               /\ accounts[a].last_sync_status = "partial"

\* the last run of account a searched and then failed or was interrupted
FailedAfterSearch(a) ==
    /\ last[a].outcome \in Aborted \cup {"crashed"}
    /\ "search" \in last[a].ops

\* C28: only the step that finalizes a run changes last_sync_at or
\* emails_count of its account; so the run that follows a failed or
\* interrupted run searches with the criterion of that run, gets every id
\* the criterion selects, from the first one, and inserts none of the
\* messages that run had archived
C28_FailedRunKeepsCursor ==
    /\ [][\A a \in Accounts :
             (\/ accounts'[a].last_sync_at # accounts[a].last_sync_at
              \/ accounts'[a].emails_count # accounts[a].emails_count) =>
                 \E r \in Runs : /\ acct[r] = a
                                 /\ pc[r] = "finalize"
                                 /\ pc'[r] = "idle"
                                 /\ last'[a].outcome = "finalized"]_vars
    /\ [](\A r \in Runs :
             (Searched(r) /\ FailedAfterSearch(acct[r])) =>
                 LET a == acct[r]
                 IN  /\ cur[r].crit = last[a].crit
                     /\ email_ids[r] =
                           ImapSearch(SubSeq(mailbox[a], 1, cur[r].seen),
                                      last[a].crit)
                     /\ cur[r].archived \cap last[a].archived = {})

\* C28 witness: a run follows a run that archived a message and then failed
\* after its first checkpoint; it has the same window and has skipped the
\* archived message as a duplicate
C28_Witness ==
    \E r \in Runs :
        /\ Searched(r)
        /\ last[acct[r]].outcome \in {"checkpoint_failed", "finalize_failed"}
        /\ last[acct[r]].batches >= 1
        /\ last[acct[r]].archived # {}
        /\ pos[r] >= 1
        /\ MidOf(r, 1) \in last[acct[r]].archived
        /\ fetched_total[r] = 0

\* C29: whenever no run is in progress for an account, its emails_count is
\* the number of archived rows that reference the account
C29_CountMatchesRows ==
    \A a \in Accounts :
        ~Running(a) => accounts[a].emails_count = Len(RowsOf(emails, a))

\* C30: the count a run returned is the number of rows that run committed,
\* for finalized runs and for runs that ended in the failed state
C30_ReturnedCountIsCommitted ==
    \A a \in Accounts :
        (~Running(a) /\ last[a].outcome \in Aborted \cup {"finalized"})
            => last[a].fetched = Cardinality(last[a].archived)

\* C31: the outcome reported for an account agrees with its recorded status:
\* an entry of results has success = true only if the run of its account did
\* not end with last_sync_status = failed, and the failed count of the
\* summary is the number of accounts whose run ended in the failed state or
\* raised
C31_ReportAgreesWithStatus ==
    LET sa == sync_all
    IN  sa.pc \in {"loop", "done"} =>
          /\ \A k \in 1..Len(sa.results) :
                sa.results[k].success =>
                    /\ accounts[sa.accounts[k]].last_sync_status # "failed"
                    /\ last[sa.accounts[k]].outcome \notin Aborted
          /\ sa.pc = "done" =>
                sa.ret.failed =
                    Cardinality({k \in 1..Len(sa.accounts) :
                        last[sa.accounts[k]].outcome
                            \in Aborted \cup {"raised"}})

\* C32: in every committed account state, last_sync_error is present if and
\* only if last_sync_status is failed
C32_ErrorIffFailed ==
    \A a \in Accounts :
        (accounts[a].last_sync_error # None)
            <=> (accounts[a].last_sync_status = "failed")

\* has slot r run once, for account a, and finalized
FinalizedOnce(r, a) ==
    /\ pc[r] = "idle"
    /\ acct[r] = a
    /\ "search" \in cur[r].ops

\* C33: two runs of the same account in threads of their own lose no update:
\* when both have finalized, emails_count has increased by the sum of their
\* fetched counts, and no message is counted by both
C33_NoLostUpdate ==
    \A a \in Accounts :
        (nruns = 2 /\ FinalizedOnce("cron", a) /\ FinalizedOnce("web", a)) =>
            /\ accounts[a].emails_count =
                  fetched_total["cron"] + fetched_total["web"]
            /\ cur["cron"].archived \cap cur["web"].archived = {}

\* C34: the fallback id identifies one message only: when the dedup check
\* finds the fallback id of the message without a Message-ID header that a
\* run is about to fetch, the row it finds is the row of that message,
\* archived for the account of the run, not the row of another message that
\* got the same id
C34_FallbackIdIdentifiesOne ==
    \A r \in Runs :
        (/\ pc[r] = "fetch"
         /\ mailbox[acct[r]][NextId(r)].hdr = NoHeader
         /\ Existing(emails, NextMessageId(r)))
            => \E i \in 1..Len(emails) :
                  /\ emails[i].message_id = NextMessageId(r)
                  /\ emails[i].account_id = acct[r]

\* the parts of the fetched message whose Content-Disposition says attachment
AttachmentParts ==
    SelectSeq(email_body.parts, LAMBDA p : p.disposition = "attachment")

\* C35: for an archived multipart message, each attachment part yields one
\* descriptor with saved = false, in part order, with a filename or without;
\* has_attachments is true exactly when there is an attachment part
C35_OneDescriptorPerAttachment ==
    (archived.state = "archived" /\ email_body.multipart) =>
        /\ Len(archived.attachments) = Len(AttachmentParts)
        /\ \A k \in 1..Len(archived.attachments) :
              /\ ~archived.attachments[k].saved
              /\ k <= Len(AttachmentParts) =>
                    /\ archived.attachments[k].content_type
                          = AttachmentParts[k].ctype
                    /\ archived.attachments[k].size
                          = AttachmentParts[k].payload.len
        /\ archived.has_attachments = (Len(AttachmentParts) > 0)

\* ceil(n / b)
CeilDiv(n, b) == (n + b - 1) \div b

\* C36: batching partitions the search result: the ids are processed once
\* each, in list order; when the loop has ended there were ceil(n/b) batches,
\* all but possibly the last of exactly b ids and the last of 1..b ids, and
\* one checkpoint was written per batch (none for n = 0)
C36_BatchingPartitions ==
    LET n == Len(batching.email_ids)
        b == batching.batch_size
        k == Len(batching.sizes)
    IN  /\ Len(batching.processed) <= n
        /\ batching.processed = SubSeq(batching.email_ids, 1,
                                       Len(batching.processed))
        /\ batching.checkpoints = k
        /\ \A j \in 1..k : batching.sizes[j] = b \/ (j = k /\ j = CeilDiv(n, b))
        /\ \A j \in 1..k : batching.sizes[j] \in 1..b
        /\ batching.pc = "end" =>
              /\ batching.processed = batching.email_ids
              /\ k = CeilDiv(n, b)

\* C36 witness: the loop has ended over 5 ids with batch size 2: three
\* batches, the last of one id, three checkpoints
C36_Witness ==
    /\ batching.pc = "end"
    /\ Len(batching.email_ids) = 5
    /\ batching.batch_size = 2
    /\ batching.sizes = <<2, 2, 1>>
    /\ batching.checkpoints = 3
====
